---- MODULE Spec2Model ----
(***************************************************************************)
(* Tredgate Loan: the loan store (services/loanService), the audit log     *)
(* store (services/auditLogService) and the decision rule, over the        *)
(* browser's localStorage.  Execution is single-threaded: every operation  *)
(* runs to completion inside one UI event handler, so every operation is   *)
(* one atomic action.                                                      *)
(***************************************************************************)
EXTENDS Integers, Sequences, FiniteSets, TLC

VARIABLES
    localStorage,   \* key -> stored item (null or a string), the persistence substrate
    nextLoanId,     \* the loan id generator: the next id it hands out
    calls,          \* history: the audit-logging calls made so far, in order
    cleared,        \* history: how many of them came before the last clearAuditLogs
    result,         \* the last call and what it returned or threw
    ui              \* what the components hold: the loans App passes to the list
                    \* and the summary

vars == <<localStorage, nextLoanId, calls, cleared, result, ui>>

-----------------------------------------------------------------------------
(* Bounds of the model *)

MaxLoans == 2       \* loans ever created (ids 1..MaxLoans)
MaxCalls == 3       \* audit-logging calls made in a run

-----------------------------------------------------------------------------
(* Program constants *)

STORAGE_KEY == "tredgate_audit_logs"
LOANS_STORAGE_KEY == "tredgate_loans"
StorageKeys == {STORAGE_KEY, LOANS_STORAGE_KEY}

AMOUNT_LIMIT == 100000
TERM_LIMIT == 60

LoanStatus == {"pending", "approved", "rejected"}
AuditAction == {"loan_created", "status_changed", "auto_decided"}

\* the value of an optional property that was never given
Undefined == "undefined"
\* the keys of AuditLogEntry / CreateAuditLogInput declared with `?`
OptionalKeys == {"previousStatus", "newStatus", "details"}

-----------------------------------------------------------------------------
(* localStorage items and JSON *)

\* getItem's answer for a key that holds nothing
Null == [kind |-> "null"]
\* strings that are not JSON texts: "" and anything JSON.parse rejects
EmptyString == [kind |-> "string", text |-> "empty"]
Garbage == [kind |-> "string", text |-> "garbage"]
\* JSON texts that are not the text of an array: null and {}
JsonNullText == [kind |-> "jsonOther", text |-> "null"]
JsonObjectText == [kind |-> "jsonOther", text |-> "{}"]

\* obj[k] in JavaScript: undefined when the object has no such property
Get(obj, k) == IF k \in DOMAIN obj THEN obj[k] ELSE Undefined

\* mutant: a property whose value is undefined is written as null
StringifyObject_UndefinedAsNull(obj) ==
    [k \in DOMAIN obj |->
        IF k \in OptionalKeys /\ obj[k] = Undefined THEN "null" ELSE obj[k]]

\* JSON.stringify of one object: properties whose value is undefined are left out
StringifyObject(obj) ==
    LET kept == {k \in DOMAIN obj : ~(k \in OptionalKeys /\ obj[k] = Undefined)}
    IN  [k \in kept |-> obj[k]]

\* JSON.stringify of an array of objects: the JSON text, held as its content
JSONstringify(arr) ==
    [kind |-> "json", val |-> [i \in 1..Len(arr) |-> StringifyObject(arr[i])]]

\* JSON.parse: [ok, isArray, val]; ok = FALSE is the SyntaxError it throws,
\* isArray tells whether the value parsed is an array
JSONparse(item) ==
    IF item.kind = "json" THEN [ok |-> TRUE, isArray |-> TRUE, val |-> item.val]
    ELSE IF item.kind = "jsonOther"
         THEN [ok |-> TRUE, isArray |-> FALSE, val |-> [parsed |-> item.text]]
    ELSE [ok |-> FALSE, isArray |-> FALSE, val |-> <<>>]

\* !stored
Falsy(item) == item = Null \/ item = EmptyString

-----------------------------------------------------------------------------
(* services/auditLogService *)

\* Date.now().toString(36) + Math.random().toString(36).substring(2, 9)
generateId(t, r) == <<t, r>>

getAuditLogs(ls) ==
    LET stored == ls[STORAGE_KEY]
    IN  IF Falsy(stored) THEN <<>>
        ELSE LET parsed == JSONparse(stored)
             IN  IF parsed.ok THEN parsed.val ELSE <<>>

\* mutant: the logs are written under the key of the loans
saveAuditLogs_UnderLoansKey(ls, logs) ==
    [ls EXCEPT ![LOANS_STORAGE_KEY] = JSONstringify(logs)]

saveAuditLogs(ls, logs) == [ls EXCEPT ![STORAGE_KEY] = JSONstringify(logs)]

\* mutant: the entry is built without its previousStatus
NewAuditLogEntry_NoPreviousStatus(input, t, r) ==
    [id |-> generateId(t, r),
     timestamp |-> t,
     action |-> input.action,
     loanId |-> input.loanId,
     previousStatus |-> Undefined,
     newStatus |-> Get(input, "newStatus"),
     details |-> Get(input, "details")]

\* mutant: previousStatus and newStatus are taken from each other's property
NewAuditLogEntry_StatusesSwapped(input, t, r) ==
    [id |-> generateId(t, r),
     timestamp |-> t,
     action |-> input.action,
     loanId |-> input.loanId,
     previousStatus |-> Get(input, "newStatus"),
     newStatus |-> Get(input, "previousStatus"),
     details |-> Get(input, "details")]

\* the entry createAuditLogEntry builds from its input, an id and a timestamp
NewAuditLogEntry(input, t, r) ==
    [id |-> generateId(t, r),
     timestamp |-> t,
     action |-> input.action,
     loanId |-> input.loanId,
     previousStatus |-> Get(input, "previousStatus"),
     newStatus |-> Get(input, "newStatus"),
     details |-> Get(input, "details")]

\* mutant: the entry is pushed but the array is never saved
createAuditLogEntry_NotSaved(ls, input, t, r) == ls

\* mutant: the stored entries are not read first, so the new entry replaces them
createAuditLogEntry_Overwrite(ls, input, t, r) ==
    saveAuditLogs(ls, <<NewAuditLogEntry(input, t, r)>>)

\* mutant: the entry is put first (unshift) instead of last (push)
createAuditLogEntry_Unshift(ls, input, t, r) ==
    saveAuditLogs(ls, <<NewAuditLogEntry(input, t, r)>> \o getAuditLogs(ls))

\* logs.push throws a TypeError when what getAuditLogs returned is not an array:
\* the key holds a JSON text that parses, to something else than an array
\* mutant: getAuditLogs has no try/catch, text that is not JSON throws as well
createAuditLogEntryThrows_NoCatch(ls) ==
    LET stored == ls[STORAGE_KEY]
    IN  ~Falsy(stored) /\ ~(JSONparse(stored).ok /\ JSONparse(stored).isArray)

createAuditLogEntryThrows(ls) ==
    LET stored == ls[STORAGE_KEY]
    IN  ~Falsy(stored) /\ JSONparse(stored).ok /\ ~JSONparse(stored).isArray

\* the storage createAuditLogEntry leaves: untouched when push throws
createAuditLogEntry(ls, input, t, r) ==
    LET newEntry == NewAuditLogEntry(input, t, r)
        logs == getAuditLogs(ls)
    IN  IF createAuditLogEntryThrows(ls) THEN ls
        ELSE saveAuditLogs(ls, Append(logs, newEntry))

RECURSIVE Filter_NotEqual(_, _)
\* mutant: the predicate is log.loanId !== loanId
Filter_NotEqual(logs, loanId) ==
    IF logs = <<>> THEN <<>>
    ELSE IF Head(logs).loanId # loanId
         THEN <<Head(logs)>> \o Filter_NotEqual(Tail(logs), loanId)
         ELSE Filter_NotEqual(Tail(logs), loanId)

RECURSIVE Filter(_, _)
\* Array.prototype.filter with the predicate log.loanId === loanId
Filter(logs, loanId) ==
    IF logs = <<>> THEN <<>>
    ELSE IF Head(logs).loanId = loanId
         THEN <<Head(logs)>> \o Filter(Tail(logs), loanId)
         ELSE Filter(Tail(logs), loanId)

getAuditLogsForLoan(ls, loanId) ==
    LET logs == getAuditLogs(ls)
    IN  Filter(logs, loanId)

\* mutant: removeItem is given the key of the loans
clearAuditLogs_WrongKey(ls) == [ls EXCEPT ![LOANS_STORAGE_KEY] = Null]

clearAuditLogs(ls) == [ls EXCEPT ![STORAGE_KEY] = Null]

-----------------------------------------------------------------------------
(* e2e/helpers/testHelpers: the decision rule *)

\* mutant: the limits are exclusive
shouldAutoApprove_Exclusive(amount, termMonths) ==
    amount < AMOUNT_LIMIT /\ termMonths < TERM_LIMIT

\* mutant: either limit is enough
shouldAutoApprove_Either(amount, termMonths) ==
    amount <= AMOUNT_LIMIT \/ termMonths <= TERM_LIMIT

shouldAutoApprove(amount, termMonths) ==
    amount <= AMOUNT_LIMIT /\ termMonths <= TERM_LIMIT

-----------------------------------------------------------------------------
(* String.prototype.trim, on a name held as its sequence of characters *)

Whitespace == {" "}

RECURSIVE TrimStart(_)
TrimStart(s) ==
    IF s # <<>> /\ Head(s) \in Whitespace THEN TrimStart(Tail(s)) ELSE s

RECURSIVE TrimEnd(_)
TrimEnd(s) ==
    IF s # <<>> /\ s[Len(s)] \in Whitespace
    THEN TrimEnd(SubSeq(s, 1, Len(s) - 1)) ELSE s

Trim(s) == TrimEnd(TrimStart(s))

RECURSIVE Join(_)
\* the string made of the characters of s
Join(s) == IF s = <<>> THEN "" ELSE Head(s) \o Join(Tail(s))

-----------------------------------------------------------------------------
(* Numbers that are not integers: exact fractions <<n, d>>, d > 0, in lowest
   terms. The rounding of floating-point arithmetic is not modelled. *)

Abs(n) == IF n < 0 THEN -n ELSE n

RECURSIVE GCD(_, _)
GCD(a, b) == IF b = 0 THEN a ELSE GCD(b, a % b)

\* n / d in lowest terms, d # 0
Frac(n, d) ==
    LET g == GCD(Abs(n), Abs(d))
        sign == IF d < 0 THEN -1 ELSE 1
    IN  <<(sign * n) \div g, (sign * d) \div g>>

Zero == <<0, 1>>
One == <<1, 1>>
Num(n) == <<n, 1>>

Plus(a, b) == Frac(a[1] * b[2] + b[1] * a[2], a[2] * b[2])
Minus(a, b) == Frac(a[1] * b[2] - b[1] * a[2], a[2] * b[2])
\* a * b, common factors taken out before the products are formed
Times(a, b) ==
    LET g1 == GCD(Abs(a[1]), b[2])
        g2 == GCD(Abs(b[1]), a[2])
    IN  Frac((a[1] \div g1) * (b[1] \div g2), (a[2] \div g2) * (b[2] \div g1))
\* a / b, b # 0
Over(a, b) == Times(a, Frac(b[2], b[1]))
\* a <= b
AtMost(a, b) == a[1] * b[2] <= b[1] * a[2]

RECURSIVE Pow(_, _)
\* Math.pow(a, n) for a natural n
Pow(a, n) == IF n = 0 THEN One ELSE Times(a, Pow(a, n - 1))

-----------------------------------------------------------------------------
(* calculateMonthlyPayment of the e2e helpers, and the payment the loan list
   shows *)

\* mutant: a loan without interest is spread over twelve months
calculateMonthlyPayment_OverAYear(amount, termMonths, interestRate) ==
    IF interestRate = Zero
    THEN Over(Num(amount), Num(12))
    ELSE LET monthlyRate == Over(interestRate, Num(12))
             numerator == Times(monthlyRate, Pow(Plus(One, monthlyRate), termMonths))
             denominator == Minus(Pow(Plus(One, monthlyRate), termMonths), One)
         IN  Times(Num(amount), Over(numerator, denominator))

\* mutant: the annual rate is used as the monthly rate
calculateMonthlyPayment_AnnualRate(amount, termMonths, interestRate) ==
    IF interestRate = Zero
    THEN Over(Num(amount), Num(termMonths))
    ELSE LET monthlyRate == interestRate
             numerator == Times(monthlyRate, Pow(Plus(One, monthlyRate), termMonths))
             denominator == Minus(Pow(Plus(One, monthlyRate), termMonths), One)
         IN  Times(Num(amount), Over(numerator, denominator))

calculateMonthlyPayment(amount, termMonths, interestRate) ==
    IF interestRate = Zero
    THEN Over(Num(amount), Num(termMonths))
    ELSE LET monthlyRate == Over(interestRate, Num(12))
             numerator == Times(monthlyRate, Pow(Plus(One, monthlyRate), termMonths))
             denominator == Minus(Pow(Plus(One, monthlyRate), termMonths), One)
         IN  Times(Num(amount), Over(numerator, denominator))

\* mutant: the interest is charged for every year of the term
LoanListMonthlyPayment_InterestPerYear(amount, termMonths, interestRate) ==
    Over(Times(Num(amount),
               Plus(One, Times(interestRate, Frac(termMonths, 12)))),
         Num(termMonths))

\* the monthly payment in a row of the loan list: amount * (1 + interestRate)
\* / termMonths
LoanListMonthlyPayment(amount, termMonths, interestRate) ==
    Over(Times(Num(amount), Plus(One, interestRate)), Num(termMonths))

-----------------------------------------------------------------------------
(* services/loanService *)

ERROR_NAME_REQUIRED == "Applicant name is required"
ERROR_AMOUNT_POSITIVE == "Amount must be greater than 0"
ERROR_TERM_POSITIVE == "Term months must be greater than 0"
ERROR_INTEREST_REQUIRED == "Interest rate is required and cannot be negative"
NoError == "none"

\* mutant: an amount of 0 is accepted
validateLoanInput_ZeroAmount(input) ==
    IF Trim(input.applicantName) = <<>> THEN ERROR_NAME_REQUIRED
    ELSE IF input.amount < 0 THEN ERROR_AMOUNT_POSITIVE
    ELSE IF input.termMonths <= 0 THEN ERROR_TERM_POSITIVE
    ELSE IF "interestRate" \notin DOMAIN input \/ input.interestRate < 0
         THEN ERROR_INTEREST_REQUIRED
    ELSE NoError

\* the validation of create's input: the message of the first constraint
\* that fails, NoError when all hold
validateLoanInput(input) ==
    IF Trim(input.applicantName) = <<>> THEN ERROR_NAME_REQUIRED
    ELSE IF input.amount <= 0 THEN ERROR_AMOUNT_POSITIVE
    ELSE IF input.termMonths <= 0 THEN ERROR_TERM_POSITIVE
    ELSE IF "interestRate" \notin DOMAIN input \/ input.interestRate < 0
         THEN ERROR_INTEREST_REQUIRED
    ELSE NoError

\* the loan list: stored data that is empty or corrupted is no data
getLoans(ls) ==
    LET stored == ls[LOANS_STORAGE_KEY]
    IN  IF Falsy(stored) THEN <<>>
        ELSE LET parsed == JSONparse(stored)
             IN  IF parsed.ok /\ parsed.isArray THEN parsed.val ELSE <<>>

saveLoans(ls, loans) == [ls EXCEPT ![LOANS_STORAGE_KEY] = JSONstringify(loans)]

\* mutant: every loan is given the same id
NewLoan_SameId(input, id, t) ==
    [id |-> 1,
     applicantName |-> Trim(input.applicantName),
     amount |-> input.amount,
     termMonths |-> input.termMonths,
     interestRate |-> input.interestRate,
     status |-> "pending",
     createdAt |-> t]

\* mutant: the loan is created already approved
NewLoan_Approved(input, id, t) ==
    [id |-> id,
     applicantName |-> Trim(input.applicantName),
     amount |-> input.amount,
     termMonths |-> input.termMonths,
     interestRate |-> input.interestRate,
     status |-> "approved",
     createdAt |-> t]

\* the record create builds: id and createdAt assigned, status pending
NewLoan(input, id, t) ==
    [id |-> id,
     applicantName |-> Trim(input.applicantName),
     amount |-> input.amount,
     termMonths |-> input.termMonths,
     interestRate |-> input.interestRate,
     status |-> "pending",
     createdAt |-> t]

\* what a call leaves: the storage after it, whether it threw, what it returned
\* (the message of the Error when it threw)
Outcome(storage, threw, ret) == [storage |-> storage, threw |-> threw, ret |-> ret]

\* createLoanApplication(input): validate, build the loan, persist it, log it,
\* return it; id, t and r are the generated id, the clock and the random draw
createLoanApplication(ls, input, id, t, r) ==
    IF validateLoanInput(input) # NoError
    THEN Outcome(ls, TRUE, validateLoanInput(input))
    ELSE LET newLoan == NewLoan(input, id, t)
             saved == saveLoans(ls, Append(getLoans(ls), newLoan))
             logged == createAuditLogEntry(saved,
                 [action |-> "loan_created", loanId |-> newLoan.id,
                  newStatus |-> "pending",
                  details |-> "Loan created for " \o Join(newLoan.applicantName)],
                 t, r)
         IN  IF createAuditLogEntryThrows(saved)
             THEN Outcome(logged, TRUE, "TypeError")
             ELSE Outcome(logged, FALSE, newLoan)

\* loans.findIndex(l => l.id === loanId) + 1: 0 when there is none
FindLoan(loans, loanId) ==
    IF \E i \in 1..Len(loans) : loans[i].id = loanId
    THEN CHOOSE i \in 1..Len(loans) :
            loans[i].id = loanId /\ \A j \in 1..(i - 1) : loans[j].id # loanId
    ELSE 0

\* mutant: the status is set on every loan of the collection
SetStatusAndLog_EveryLoan(ls, loans, i, newStatus, action, details, t, r) ==
    LET previousStatus == loans[i].status
        saved == saveLoans(ls,
                     [j \in 1..Len(loans) |-> [loans[j] EXCEPT !.status = newStatus]])
    IN  createAuditLogEntry(saved,
            [action |-> action, loanId |-> loans[i].id,
             previousStatus |-> previousStatus, newStatus |-> newStatus,
             details |-> details],
            t, r)

\* mutant: the entry always tells of a loan that was pending
SetStatusAndLog_PreviousPending(ls, loans, i, newStatus, action, details, t, r) ==
    LET saved == saveLoans(ls, [loans EXCEPT ![i].status = newStatus])
    IN  createAuditLogEntry(saved,
            [action |-> action, loanId |-> loans[i].id,
             previousStatus |-> "pending", newStatus |-> newStatus,
             details |-> details],
            t, r)

\* set the status of the loan at index i, persist, log with the given action
SetStatusAndLog(ls, loans, i, newStatus, action, details, t, r) ==
    LET previousStatus == loans[i].status
        saved == saveLoans(ls, [loans EXCEPT ![i].status = newStatus])
    IN  createAuditLogEntry(saved,
            [action |-> action, loanId |-> loans[i].id,
             previousStatus |-> previousStatus, newStatus |-> newStatus,
             details |-> details],
            t, r)

\* mutant: the collection is saved back even when the loan is absent
updateLoanStatus_SavesAnyway(ls, loanId, newStatus, t, r) ==
    LET loans == getLoans(ls)
        i == FindLoan(loans, loanId)
    IN  IF i = 0 THEN Outcome(saveLoans(ls, loans), FALSE, "void")
        ELSE Outcome(
                 SetStatusAndLog(ls, loans, i, newStatus, "status_changed",
                     "Status changed from " \o loans[i].status \o " to " \o newStatus,
                     t, r),
                 FALSE, "void")

\* updateLoanStatus(loanId, newStatus): a no-op when the loan is absent
updateLoanStatus(ls, loanId, newStatus, t, r) ==
    LET loans == getLoans(ls)
        i == FindLoan(loans, loanId)
    IN  IF i = 0 THEN Outcome(ls, FALSE, "void")
        ELSE Outcome(
                 SetStatusAndLog(ls, loans, i, newStatus, "status_changed",
                     "Status changed from " \o loans[i].status \o " to " \o newStatus,
                     t, r),
                 createAuditLogEntryThrows(ls),
                 IF createAuditLogEntryThrows(ls) THEN "TypeError" ELSE "void")

\* the Decision Rule applied to a loan
Decide(loan) ==
    IF shouldAutoApprove(loan.amount, loan.termMonths) THEN "approved" ELSE "rejected"

\* autoDecideLoan(loanId): a no-op when the loan is absent
autoDecideLoan(ls, loanId, t, r) ==
    LET loans == getLoans(ls)
        i == FindLoan(loans, loanId)
    IN  IF i = 0 THEN Outcome(ls, FALSE, "void")
        ELSE Outcome(
                 SetStatusAndLog(ls, loans, i, Decide(loans[i]), "auto_decided",
                     "Auto-decision: " \o Decide(loans[i]), t, r),
                 createAuditLogEntryThrows(ls),
                 IF createAuditLogEntryThrows(ls) THEN "TypeError" ELSE "void")

\* mutant: the first loan of the collection is removed, whatever the id
deleteLoan_FirstLoan(ls, loanId) ==
    Outcome(saveLoans(ls, Tail(getLoans(ls))), FALSE, "void")

\* the delete of the loan list: the loan leaves the collection, nothing is logged
deleteLoan(ls, loanId) ==
    Outcome(saveLoans(ls, SelectSeq(getLoans(ls), LAMBDA l : l.id # loanId)),
            FALSE, "void")

-----------------------------------------------------------------------------
(* Inputs *)

LoanIds == 1..MaxLoans

\* the instants new Date() reads and the suffixes Math.random() draws
Timestamps == {"2024-01-01T00:00:00.000Z"}
RandomSuffixes == {"k3x9q2a"}

\* a valid input at the approval boundary
BaseInput ==
    [applicantName |-> <<"A">>, amount |-> AMOUNT_LIMIT,
     termMonths |-> TERM_LIMIT, interestRate |-> 0]

\* inputs that pass validation: on both limits of the decision rule, just over
\* one of them, and one whose name has blanks around it
ValidInputs ==
    {BaseInput,
     [BaseInput EXCEPT !.amount = AMOUNT_LIMIT + 1],
     [BaseInput EXCEPT !.termMonths = TERM_LIMIT + 1],
     [BaseInput EXCEPT !.applicantName = <<" ", "A", " ">>]}

\* the input without its interest rate
WithoutRate(input) == [k \in DOMAIN input \ {"interestRate"} |-> input[k]]

\* inputs that fail validation: each constraint alone, and all at once
InvalidInputs ==
    {[BaseInput EXCEPT !.applicantName = n] : n \in {<<>>, <<" ", " ">>}}
    \cup {[BaseInput EXCEPT !.amount = a] : a \in {0, -1}}
    \cup {[BaseInput EXCEPT !.termMonths = m] : m \in {0, -1}}
    \cup {[BaseInput EXCEPT !.interestRate = -1], WithoutRate(BaseInput)}
    \cup {[applicantName |-> <<" ">>, amount |-> 0, termMonths |-> 0, interestRate |-> -1]}

CreateInputs == ValidInputs \cup InvalidInputs

-----------------------------------------------------------------------------
(* The state machine *)

\* what `result` holds: the last call and what it returned or threw
Result(op, out) == [op |-> op, threw |-> out.threw, ret |-> out.ret]

Init ==
    /\ localStorage = [k \in StorageKeys |-> Null]
    /\ nextLoanId = 1
    /\ calls = <<>>
    /\ cleared = 0
    /\ result = [op |-> "init", threw |-> FALSE, ret |-> "void"]
    /\ ui = [loans |-> <<>>]

\* createLoanApplication(input)
CreateLoanApplication ==
    \E input \in CreateInputs, t \in Timestamps, r \in RandomSuffixes :
        \E out \in {createLoanApplication(localStorage, input, nextLoanId, t, r)} :
        /\ validateLoanInput(input) = NoError =>
              (nextLoanId <= MaxLoans /\ Len(calls) < MaxCalls)
        /\ localStorage' = out.storage
        /\ nextLoanId' = IF validateLoanInput(input) = NoError
                         THEN nextLoanId + 1 ELSE nextLoanId
        /\ calls' = IF out.threw THEN calls
                    ELSE Append(calls, [op |-> "create", loanId |-> nextLoanId])
        /\ result' = Result("create", out)
        /\ UNCHANGED <<cleared, ui>>

\* updateLoanStatus(loanId, newStatus)
UpdateLoanStatus ==
    \E loanId \in LoanIds, newStatus \in LoanStatus,
       t \in Timestamps, r \in RandomSuffixes :
        \E out \in {updateLoanStatus(localStorage, loanId, newStatus, t, r)} :
        LET found == FindLoan(getLoans(localStorage), loanId) # 0 IN
        /\ found => Len(calls) < MaxCalls
        /\ localStorage' = out.storage
        /\ calls' = IF found THEN Append(calls, [op |-> "update", loanId |-> loanId])
                    ELSE calls
        /\ result' = Result("update", out)
        /\ UNCHANGED <<nextLoanId, cleared, ui>>

\* autoDecideLoan(loanId)
AutoDecideLoan ==
    \E loanId \in LoanIds, t \in Timestamps, r \in RandomSuffixes :
        \E out \in {autoDecideLoan(localStorage, loanId, t, r)} :
        LET found == FindLoan(getLoans(localStorage), loanId) # 0 IN
        /\ found => Len(calls) < MaxCalls
        /\ localStorage' = out.storage
        /\ calls' = IF found THEN Append(calls, [op |-> "autoDecide", loanId |-> loanId])
                    ELSE calls
        /\ result' = Result("autoDecide", out)
        /\ UNCHANGED <<nextLoanId, cleared, ui>>

\* the delete button of a loan's row
DeleteLoan ==
    \E loanId \in LoanIds :
        \E out \in {deleteLoan(localStorage, loanId)} :
        /\ FindLoan(getLoans(localStorage), loanId) # 0
        /\ localStorage' = out.storage
        /\ result' = Result("delete", out)
        /\ UNCHANGED <<nextLoanId, calls, cleared, ui>>

\* clearAuditLogs()
ClearAuditLogs ==
    /\ localStorage' = clearAuditLogs(localStorage)
    /\ cleared' = Len(calls)
    /\ result' = [op |-> "clear", threw |-> FALSE, ret |-> "void"]
    /\ UNCHANGED <<nextLoanId, calls, ui>>

\* getAuditLogsForLoan(loanId)
GetAuditLogsForLoan ==
    \E loanId \in LoanIds :
        /\ result' = [op |-> "getAuditLogsForLoan", threw |-> FALSE,
                      ret |-> [loanId |-> loanId,
                               logs |-> getAuditLogsForLoan(localStorage, loanId)]]
        /\ UNCHANGED <<localStorage, nextLoanId, calls, cleared, ui>>

Next ==
    \/ CreateLoanApplication
    \/ UpdateLoanStatus
    \/ AutoDecideLoan
    \/ DeleteLoan
    \/ ClearAuditLogs
    \/ GetAuditLogsForLoan

Spec == Init /\ [][Next]_vars

-----------------------------------------------------------------------------
(* The stores over a localStorage that something else has written to *)

\* values found under a key that neither service wrote: the empty string, text
\* that is not JSON, and JSON texts that are not arrays
ForeignItems == {EmptyString, Garbage, JsonNullText, JsonObjectText}

\* localStorage.setItem(key, item) by something else than the two services
SetItem ==
    \E key \in StorageKeys, item \in ForeignItems :
        /\ localStorage' = [localStorage EXCEPT ![key] = item]
        /\ result' = [op |-> "setItem", threw |-> FALSE, ret |-> "void"]
        /\ UNCHANGED <<nextLoanId, calls, cleared, ui>>

\* getAuditLogs()
GetAuditLogs ==
    /\ result' = [op |-> "getAuditLogs", threw |-> FALSE,
                  ret |-> getAuditLogs(localStorage)]
    /\ UNCHANGED <<localStorage, nextLoanId, calls, cleared, ui>>

\* the loan list
GetLoans ==
    /\ result' = [op |-> "getLoans", threw |-> FALSE,
                  ret |-> getLoans(localStorage)]
    /\ UNCHANGED <<localStorage, nextLoanId, calls, cleared, ui>>

NextCorrupt ==
    \/ SetItem
    \/ GetAuditLogs
    \/ GetLoans
    \/ CreateLoanApplication

SpecCorrupt == Init /\ [][NextCorrupt]_vars

-----------------------------------------------------------------------------
(* The pure functions, applied to inputs around the limits *)

Margin == 5         \* how far around each limit the inputs reach
MaxTerm == 3        \* the longest term calculateMonthlyPayment is applied to

AmountsTried == (AMOUNT_LIMIT - Margin)..(AMOUNT_LIMIT + Margin)
TermsTried == (TERM_LIMIT - Margin)..(TERM_LIMIT + Margin)

\* shouldAutoApprove(amount, termMonths)
ShouldAutoApprove ==
    \E amount \in AmountsTried, termMonths \in TermsTried :
        /\ result' = [op |-> "shouldAutoApprove", threw |-> FALSE,
                      ret |-> [amount |-> amount, termMonths |-> termMonths,
                               value |-> shouldAutoApprove(amount, termMonths)]]
        /\ UNCHANGED <<localStorage, nextLoanId, calls, cleared, ui>>

\* the amounts, terms and annual rates calculateMonthlyPayment is applied to:
\* no amount and two amounts, every term up to MaxTerm, no interest, 24 %,
\* 120 % and -24 % a year
AmountsPaid == {0, 1000, 1200}
TermsPaid == 1..MaxTerm
RatesPaid == {Zero, Frac(24, 100), Frac(120, 100), Frac(-24, 100)}

\* calculateMonthlyPayment(amount, termMonths, interestRate)
CalculateMonthlyPayment ==
    \E amount \in AmountsPaid, termMonths \in TermsPaid, interestRate \in RatesPaid :
        /\ result' = [op |-> "calculateMonthlyPayment", threw |-> FALSE,
                      ret |-> [amount |-> amount, termMonths |-> termMonths,
                               interestRate |-> interestRate,
                               value |-> calculateMonthlyPayment(amount, termMonths,
                                                                 interestRate)]]
        /\ UNCHANGED <<localStorage, nextLoanId, calls, cleared, ui>>

\* the loans the loan list is rendered with
mockLoans ==
    {[amount |-> 50000, termMonths |-> 24, interestRate |-> Frac(8, 100)],
     [amount |-> 100000, termMonths |-> 60, interestRate |-> Frac(6, 100)],
     [amount |-> 150000, termMonths |-> 72, interestRate |-> Frac(9, 100)],
     [amount |-> 10000, termMonths |-> 12, interestRate |-> Zero]}

\* a row of the loan list is rendered
RenderLoanRow ==
    \E loan \in mockLoans :
        /\ result' = [op |-> "renderLoanRow", threw |-> FALSE,
                      ret |-> [amount |-> loan.amount, termMonths |-> loan.termMonths,
                               interestRate |-> loan.interestRate,
                               value |-> LoanListMonthlyPayment(loan.amount,
                                             loan.termMonths, loan.interestRate)]]
        /\ UNCHANGED <<localStorage, nextLoanId, calls, cleared, ui>>

NextPure ==
    \/ ShouldAutoApprove
    \/ CalculateMonthlyPayment
    \/ RenderLoanRow

SpecPure == Init /\ [][NextPure]_vars

-----------------------------------------------------------------------------
(* The components: LoanForm, LoanList, LoanSummary, AuditLog and App *)

\* Array.prototype.reverse
Reverse(s) == [i \in 1..Len(s) |-> s[Len(s) + 1 - i]]

\* mutant: the view keeps the order of the log
refreshLogs_InsertionOrder(ls) == getAuditLogs(ls)

\* AuditLog: refreshLogs(), the value it gives auditLogs
refreshLogs(ls) == Reverse(getAuditLogs(ls))

\* the buttons a row of the loan list can have
StatusButtons == {"approve", "reject", "autoDecide"}
RowButtons == StatusButtons \cup {"delete"}

\* mutant: the buttons of a pending loan on every row
ActionButtons_AnyStatus(loan) == RowButtons

\* mutant: a rejected loan can still be approved
ActionButtons_ApproveRejected(loan) ==
    IF loan.status = "pending" THEN RowButtons
    ELSE IF loan.status = "rejected" THEN {"approve", "delete"}
    ELSE {"delete"}

\* LoanList: the buttons of a loan's row
ActionButtons(loan) ==
    IF loan.status = "pending" THEN RowButtons ELSE {"delete"}

\* the sum of the amounts of a sequence of loans
RECURSIVE SumOfAmounts(_)
SumOfAmounts(loans) ==
    IF loans = <<>> THEN 0 ELSE Head(loans).amount + SumOfAmounts(Tail(loans))

\* loans.filter(l => l.status === status)
WithStatus(loans, status) == SelectSeq(loans, LAMBDA l : l.status = status)

\* mutant: the amounts of all loans are added up
LoanSummary_EveryAmount(loans) ==
    [total |-> Len(loans),
     pending |-> Len(WithStatus(loans, "pending")),
     approved |-> Len(WithStatus(loans, "approved")),
     rejected |-> Len(WithStatus(loans, "rejected")),
     totalApprovedAmount |-> SumOfAmounts(loans)]

\* LoanSummary: the five statistics of the loans it is given
LoanSummary(loans) ==
    [total |-> Len(loans),
     pending |-> Len(WithStatus(loans, "pending")),
     approved |-> Len(WithStatus(loans, "approved")),
     rejected |-> Len(WithStatus(loans, "rejected")),
     totalApprovedAmount |-> SumOfAmounts(WithStatus(loans, "approved"))]

\* what a handler of a component leaves: the storage, and the loans App holds
Handled(storage) == [storage |-> storage, loans |-> getLoans(storage)]

\* App: the list's approve event
handleApprove(ls, id, t, r) ==
    Handled(updateLoanStatus(ls, id, "approved", t, r).storage)

\* mutant: a reject event approves
handleReject_Approves(ls, id, t, r) ==
    Handled(updateLoanStatus(ls, id, "approved", t, r).storage)

\* App: the list's reject event
handleReject(ls, id, t, r) ==
    Handled(updateLoanStatus(ls, id, "rejected", t, r).storage)

\* App: the list's autoDecide event
handleAutoDecide(ls, id, t, r) ==
    Handled(autoDecideLoan(ls, id, t, r).storage)

\* the list's delete button: nothing happens unless the dialog is accepted
handleDelete(ls, id, confirmed) ==
    Handled(IF confirmed THEN deleteLoan(ls, id).storage ELSE ls)

\* LoanForm: the message of the first constraint the filled-in form breaks,
\* in the order of the service's validation; NoError when it breaks none
validateForm(form) ==
    IF form.applicantName = <<>> THEN ERROR_NAME_REQUIRED
    ELSE IF form.amount <= 0 THEN ERROR_AMOUNT_POSITIVE
    ELSE IF form.termMonths <= 0 THEN ERROR_TERM_POSITIVE
    ELSE IF form.interestRate < 0 THEN ERROR_INTEREST_REQUIRED
    ELSE NoError

\* what a submission leaves: the storage, the message the form shows, the
\* inputs createLoanApplication was called with and the events emitted
Submitted(storage, error, called, emitted) ==
    [storage |-> storage, error |-> error, called |-> called, emitted |-> emitted]

\* mutant: the name goes to the service as it was typed
handleSubmit_Untrimmed(ls, form, id, t, r) ==
    IF validateForm(form) # NoError
    THEN Submitted(ls, validateForm(form), <<>>, <<>>)
    ELSE LET out == createLoanApplication(ls, form, id, t, r)
         IN  IF out.threw
             THEN Submitted(out.storage, out.ret, <<form>>, <<>>)
             ELSE Submitted(out.storage, NoError, <<form>>, <<"created">>)

\* LoanForm: the submit of the form
handleSubmit(ls, form, id, t, r) ==
    IF validateForm(form) # NoError
    THEN Submitted(ls, validateForm(form), <<>>, <<>>)
    ELSE LET input == [form EXCEPT !.applicantName = Trim(@)]
             out == createLoanApplication(ls, input, id, t, r)
         IN  IF out.threw
             THEN Submitted(out.storage, out.ret, <<input>>, <<>>)
             ELSE Submitted(out.storage, NoError, <<input>>, <<"created">>)

\* what is typed into the form: a loan within the limits of the decision rule,
\* with and without blanks around the name, a loan over them, and the forms
\* that break a constraint, the name left empty and not blank
FormInputs ==
    {[BaseInput EXCEPT !.applicantName = <<" ", "A", " ">>],
     BaseInput,
     [BaseInput EXCEPT !.amount = AMOUNT_LIMIT + 1]}
    \cup {input \in InvalidInputs :
            /\ "interestRate" \in DOMAIN input
            /\ Trim(input.applicantName) = <<>> => input.applicantName = <<>>}

\* the form is submitted; App re-reads the loans on the created event
Submit ==
    \E form \in FormInputs, t \in Timestamps, r \in RandomSuffixes :
        \E out \in {handleSubmit(localStorage, form, nextLoanId, t, r)} :
        /\ out.called # <<>> => nextLoanId <= MaxLoans
        /\ localStorage' = out.storage
        /\ nextLoanId' = IF out.called # <<>> THEN nextLoanId + 1 ELSE nextLoanId
        /\ calls' = IF out.emitted # <<>>
                    THEN Append(calls, [op |-> "create", loanId |-> nextLoanId])
                    ELSE calls
        /\ ui' = [ui EXCEPT !.loans = IF out.emitted # <<>>
                                      THEN getLoans(out.storage) ELSE @]
        /\ result' = [op |-> "submit", threw |-> FALSE,
                      ret |-> [error |-> out.error, called |-> out.called,
                               emitted |-> out.emitted]]
        /\ UNCHANGED cleared

\* the approve button of a row
Approve ==
    \E i \in 1..Len(ui.loans), t \in Timestamps, r \in RandomSuffixes :
        \E out \in {handleApprove(localStorage, ui.loans[i].id, t, r)} :
        /\ "approve" \in ActionButtons(ui.loans[i])
        /\ localStorage' = out.storage
        /\ ui' = [ui EXCEPT !.loans = out.loans]
        /\ calls' = Append(calls, [op |-> "update", loanId |-> ui.loans[i].id])
        /\ result' = [op |-> "approve", threw |-> FALSE,
                      ret |-> [loanId |-> ui.loans[i].id]]
        /\ UNCHANGED <<nextLoanId, cleared>>

\* the reject button of a row
Reject ==
    \E i \in 1..Len(ui.loans), t \in Timestamps, r \in RandomSuffixes :
        \E out \in {handleReject(localStorage, ui.loans[i].id, t, r)} :
        /\ "reject" \in ActionButtons(ui.loans[i])
        /\ localStorage' = out.storage
        /\ ui' = [ui EXCEPT !.loans = out.loans]
        /\ calls' = Append(calls, [op |-> "update", loanId |-> ui.loans[i].id])
        /\ result' = [op |-> "reject", threw |-> FALSE,
                      ret |-> [loanId |-> ui.loans[i].id]]
        /\ UNCHANGED <<nextLoanId, cleared>>

\* the auto-decide button of a row
AutoDecide ==
    \E i \in 1..Len(ui.loans), t \in Timestamps, r \in RandomSuffixes :
        \E out \in {handleAutoDecide(localStorage, ui.loans[i].id, t, r)} :
        /\ "autoDecide" \in ActionButtons(ui.loans[i])
        /\ localStorage' = out.storage
        /\ ui' = [ui EXCEPT !.loans = out.loans]
        /\ calls' = Append(calls, [op |-> "autoDecide", loanId |-> ui.loans[i].id])
        /\ result' = [op |-> "autoDecide", threw |-> FALSE,
                      ret |-> [loanId |-> ui.loans[i].id]]
        /\ UNCHANGED <<nextLoanId, cleared>>

\* the delete button of a row, and the answer to its dialog
Delete ==
    \E i \in 1..Len(ui.loans), confirmed \in BOOLEAN :
        \E out \in {handleDelete(localStorage, ui.loans[i].id, confirmed)} :
        /\ "delete" \in ActionButtons(ui.loans[i])
        /\ localStorage' = out.storage
        /\ ui' = [ui EXCEPT !.loans = out.loans]
        /\ result' = [op |-> "deleteButton", threw |-> FALSE,
                      ret |-> [loanId |-> ui.loans[i].id, confirmed |-> confirmed]]
        /\ UNCHANGED <<nextLoanId, calls, cleared>>

\* the audit log view is refreshed: ret is what auditLogs holds after it
RefreshLogs ==
    /\ result' = [op |-> "refreshLogs", threw |-> FALSE,
                  ret |-> [auditLogs |-> refreshLogs(localStorage)]]
    /\ UNCHANGED <<localStorage, nextLoanId, calls, cleared, ui>>

NextUI ==
    \/ Submit
    \/ Approve
    \/ Reject
    \/ AutoDecide
    \/ Delete
    \/ RefreshLogs

SpecUI == Init /\ [][NextUI]_vars

-----------------------------------------------------------------------------
(* The stores as the operations read them *)

Loans == getLoans(localStorage)
Logs == getAuditLogs(localStorage)

\* the loan ids held by a collection of loans
IdsOf(loans) == {loans[i].id : i \in 1..Len(loans)}

\* s is t without t's last n elements
IsPrefix(s, t) == Len(s) <= Len(t) /\ SubSeq(t, 1, Len(s)) = s

-----------------------------------------------------------------------------
(* C1 .. C10 *)

\* an input that meets every field constraint of section 7
PassesValidation(input) ==
    /\ \E i \in 1..Len(input.applicantName) : input.applicantName[i] # " "
    /\ input.amount > 0
    /\ input.termMonths > 0
    /\ "interestRate" \in DOMAIN input
    /\ input.interestRate >= 0

\* C1: for every valid input, createLoanApplication returns a loan whose status
\* is pending and whose id is the id of no loan already stored, adds that loan to
\* the loan collection, and appends exactly one audit entry: loan_created,
\* newStatus pending, loanId the returned loan's id.
C1_CreateAddsPendingLoanAndOneEntry ==
    \A input \in CreateInputs, t \in Timestamps, r \in RandomSuffixes :
        PassesValidation(input) =>
            \A out \in {createLoanApplication(localStorage, input, nextLoanId, t, r)} :
            \A loansAfter \in {getLoans(out.storage)}, logsAfter \in {getAuditLogs(out.storage)} :
                /\ ~out.threw
                /\ out.ret.status = "pending"
                /\ out.ret.id \notin IdsOf(Loans)
                /\ loansAfter = Append(Loans, out.ret)
                /\ Len(logsAfter) = Len(Logs) + 1
                /\ IsPrefix(Logs, logsAfter)
                /\ logsAfter[Len(logsAfter)].action = "loan_created"
                /\ Get(logsAfter[Len(logsAfter)], "newStatus") = "pending"
                /\ logsAfter[Len(logsAfter)].loanId = out.ret.id

\* a second loan was created: it is the last of the collection, and the last
\* audit entry is its loan_created entry
C1_Witness ==
    /\ result.op = "create" /\ ~result.threw
    /\ Len(Loans) = 2
    /\ Loans[2] = result.ret
    /\ Logs # <<>>
    /\ Logs[Len(Logs)].action = "loan_created"
    /\ Logs[Len(Logs)].loanId = result.ret.id

\* C2: when the input fails validation (name empty or whitespace-only, amount
\* <= 0, termMonths <= 0, interest rate negative or absent), create reports the
\* failure to its caller and leaves both persisted collections as they were.
C2_InvalidCreateHasNoEffect ==
    \A input \in CreateInputs, t \in Timestamps, r \in RandomSuffixes :
        ~PassesValidation(input) =>
            LET out == createLoanApplication(localStorage, input, nextLoanId, t, r)
            IN  /\ out.threw
                /\ out.storage = localStorage
                /\ getLoans(out.storage) = Loans
                /\ getAuditLogs(out.storage) = Logs

\* create threw while the stores held a loan and its entry
C2_Witness ==
    /\ result.op = "create" /\ result.threw
    /\ Len(Loans) >= 1
    /\ Len(Logs) >= 1

\* C3: for every stored loan and every requested status, updateLoanStatus sets
\* the loan's status to it (as the next list shows) and appends exactly one audit
\* entry: status_changed, the loan's id, previousStatus the status before the
\* call, newStatus the requested status.
C3_UpdateSetsStatusAndLogsOnce ==
    \A i \in 1..Len(Loans), newStatus \in LoanStatus,
       t \in Timestamps, r \in RandomSuffixes :
        \A out \in {updateLoanStatus(localStorage, Loans[i].id, newStatus, t, r)} :
        \A loansAfter \in {getLoans(out.storage)}, logsAfter \in {getAuditLogs(out.storage)} :
            /\ Len(loansAfter) = Len(Loans)
            /\ loansAfter[i].id = Loans[i].id
            /\ loansAfter[i].status = newStatus
            /\ Len(logsAfter) = Len(Logs) + 1
            /\ IsPrefix(Logs, logsAfter)
            /\ logsAfter[Len(logsAfter)].action = "status_changed"
            /\ logsAfter[Len(logsAfter)].loanId = Loans[i].id
            /\ Get(logsAfter[Len(logsAfter)], "previousStatus") = Loans[i].status
            /\ Get(logsAfter[Len(logsAfter)], "newStatus") = newStatus

\* a pending loan was approved by updateLoanStatus
C3_Witness ==
    /\ result.op = "update"
    /\ Len(Logs) >= 2
    /\ Logs[Len(Logs)].action = "status_changed"
    /\ Get(Logs[Len(Logs)], "previousStatus") = "pending"
    /\ Get(Logs[Len(Logs)], "newStatus") = "approved"
    /\ \E i \in 1..Len(Loans) :
          Loans[i].id = Logs[Len(Logs)].loanId /\ Loans[i].status = "approved"

\* C4: for every stored loan, autoDecideLoan sets the status to approved if
\* amount <= 100000 and termMonths <= 60 and to rejected otherwise, and appends
\* exactly one audit entry: auto_decided (never status_changed), previousStatus
\* the status before the call, newStatus the decided status.
C4_AutoDecideAppliesRuleAndLogsOnce ==
    \A i \in 1..Len(Loans), t \in Timestamps, r \in RandomSuffixes :
        \A out \in {autoDecideLoan(localStorage, Loans[i].id, t, r)} :
        \A loansAfter \in {getLoans(out.storage)}, logsAfter \in {getAuditLogs(out.storage)} :
        LET decided == IF Loans[i].amount <= 100000 /\ Loans[i].termMonths <= 60
                       THEN "approved" ELSE "rejected"
        IN  /\ Len(loansAfter) = Len(Loans)
            /\ loansAfter[i].id = Loans[i].id
            /\ loansAfter[i].status = decided
            /\ Len(logsAfter) = Len(Logs) + 1
            /\ IsPrefix(Logs, logsAfter)
            /\ logsAfter[Len(logsAfter)].action = "auto_decided"
            /\ logsAfter[Len(logsAfter)].loanId = Loans[i].id
            /\ Get(logsAfter[Len(logsAfter)], "previousStatus") = Loans[i].status
            /\ Get(logsAfter[Len(logsAfter)], "newStatus") = decided

\* a loan of 100000 over 61 months was auto-decided: rejected, on its term alone
C4_Witness ==
    /\ result.op = "autoDecide"
    /\ Logs # <<>>
    /\ Logs[Len(Logs)].action = "auto_decided"
    /\ Get(Logs[Len(Logs)], "newStatus") = "rejected"
    /\ \E i \in 1..Len(Loans) :
          /\ Loans[i].id = Logs[Len(Logs)].loanId
          /\ Loans[i].amount = 100000 /\ Loans[i].termMonths = 61
          /\ Loans[i].status = "rejected"

\* C6: updateLoanStatus and autoDecideLoan with a loan id that is not in the
\* store signal no error and leave the loan collection and the audit log exactly
\* as they were.
C6_MissingLoanIsNoOp ==
    \A loanId \in (0..(MaxLoans + 1)) \ IdsOf(Loans), newStatus \in LoanStatus,
       t \in Timestamps, r \in RandomSuffixes :
        LET upd == updateLoanStatus(localStorage, loanId, newStatus, t, r)
            dec == autoDecideLoan(localStorage, loanId, t, r)
        IN  /\ ~upd.threw /\ upd.storage = localStorage
            /\ ~dec.threw /\ dec.storage = localStorage

\* autoDecideLoan ran on an id the store does not hold: one loan is stored, and
\* the last audit-logging call is still its creation
C6_Witness ==
    /\ result.op = "autoDecide" /\ ~result.threw
    /\ Len(Loans) = 1
    /\ Len(calls) = 1 /\ calls[1].op = "create"
    /\ Len(Logs) = 1

\* the status of the loan with this id in a storage, "none" when it holds no such loan
StatusOf(ls, loanId) ==
    LET loans == getLoans(ls)
        i == FindLoan(loans, loanId)
    IN  IF i = 0 THEN "none" ELSE loans[i].status

\* C7 as stated: a loan's status starts as pending and changes only by a
\* transition pending -> approved or pending -> rejected; an approved or rejected
\* loan never changes status again.
C7_OnlyPendingLoansChangeStatus ==
    [][\A loanId \in LoanIds :
          LET before == StatusOf(localStorage, loanId)
              after == StatusOf(localStorage', loanId)
          IN  /\ (before = "none" /\ after # "none") => after = "pending"
              /\ (before # "none" /\ after # "none" /\ after # before) =>
                    (before = "pending" /\ after \in {"approved", "rejected"})
      ]_vars

\* C7 amended: a loan's status starts as pending and changes only by an
\* updateLoanStatus call, to the requested status whatever the current one is,
\* or by an autoDecideLoan call, to approved or rejected; approved and rejected
\* are not final.
C7_StatusChangesOnlyByUpdateOrAutoDecide ==
    [][\A loanId \in LoanIds :
          LET before == StatusOf(localStorage, loanId)
              after == StatusOf(localStorage', loanId)
          IN  /\ (before = "none" /\ after # "none") =>
                    (after = "pending" /\ result'.op = "create")
              /\ (before # "none" /\ after # "none" /\ after # before) =>
                    \/ result'.op = "update" /\ after \in LoanStatus
                    \/ result'.op = "autoDecide" /\ after \in {"approved", "rejected"}
      ]_vars

\* an approved loan was rejected afterwards: its status is rejected and the last
\* audit entry records approved -> rejected
C7_Witness ==
    /\ Logs # <<>>
    /\ Get(Logs[Len(Logs)], "previousStatus") = "approved"
    /\ Get(Logs[Len(Logs)], "newStatus") = "rejected"
    /\ StatusOf(localStorage, Logs[Len(Logs)].loanId) = "rejected"

\* C8: the audit log is append-only under the business operations: after a
\* create, updateLoanStatus or autoDecideLoan call the log before the call is a
\* prefix of the log after it, with at most the one new entry behind it; only
\* clearAuditLogs removes entries.
C8_AuditLogAppendOnly ==
    [][/\ result'.op \in {"create", "update", "autoDecide"} =>
             /\ IsPrefix(Logs, getAuditLogs(localStorage'))
             /\ Len(getAuditLogs(localStorage')) <= Len(Logs) + 1
       /\ ~IsPrefix(Logs, getAuditLogs(localStorage')) => result'.op = "clear"
      ]_vars

\* a third entry was appended behind two that were kept
C8_Witness ==
    /\ result.op \in {"update", "autoDecide"}
    /\ Len(Logs) = 3
    /\ Logs[1].action = "loan_created"
    /\ Logs[3].action \in {"status_changed", "auto_decided"}

\* the audit action each loan-store call logs
ActionOf(op) ==
    CASE op = "create" -> "loan_created"
      [] op = "update" -> "status_changed"
      [] op = "autoDecide" -> "auto_decided"

\* the audit-logging calls made since the log was last cleared
CallsSinceClear == SubSeq(calls, cleared + 1, Len(calls))

\* C9: with no clear in between, the audit log holds exactly one entry per
\* successful create, updateLoanStatus and autoDecideLoan call, in the order the
\* calls were made, each for the loan and the kind of its call.
C9_OneEntryPerCallInCallOrder ==
    /\ Len(Logs) = Len(CallsSinceClear)
    /\ \A i \in 1..Len(Logs) :
          /\ i <= Len(CallsSinceClear)
          /\ Logs[i].loanId = CallsSinceClear[i].loanId
          /\ Logs[i].action = ActionOf(CallsSinceClear[i].op)

\* three calls on two loans, interleaved: loan, other loan, first loan again
C9_Witness ==
    /\ cleared = 0
    /\ Len(Logs) = 3
    /\ Logs[1].loanId # Logs[2].loanId
    /\ Logs[3].loanId = Logs[1].loanId

\* the positions of the entries of logs whose loanId is x
Matching(logs, x) == {i \in 1..Len(logs) : logs[i].loanId = x}

\* got is exactly the entries of logs whose loanId is x, in their order in logs
IsEntriesOf(got, logs, x) ==
    /\ Len(got) = Cardinality(Matching(logs, x))
    /\ \A i \in Matching(logs, x) :
          got[Cardinality({j \in Matching(logs, x) : j <= i})] = logs[i]

\* C10: getAuditLogsForLoan(x) returns exactly the entries of getAuditLogs()
\* whose loanId is x, in insertion order, the empty list when there is none,
\* and leaves the log as it was.
C10_GetAuditLogsForLoanFilters ==
    /\ \A x \in 0..(MaxLoans + 1) :
          /\ IsEntriesOf(getAuditLogsForLoan(localStorage, x), Logs, x)
          /\ Matching(Logs, x) = {} => getAuditLogsForLoan(localStorage, x) = <<>>
    /\ result.op = "getAuditLogsForLoan" =>
          IsEntriesOf(result.ret.logs, Logs, result.ret.loanId)

\* a loan's two entries were returned from a log of three, the other loan's
\* entry lying between them
C10_Witness ==
    /\ result.op = "getAuditLogsForLoan"
    /\ Len(Logs) = 3
    /\ Len(result.ret.logs) = 2
    /\ Logs[2].loanId # result.ret.loanId
    /\ result.ret.logs = <<Logs[1], Logs[3]>>

\* C5: shouldAutoApprove(amount, termMonths) is true if and only if amount <=
\* 100000 and termMonths <= 60: (100000, 60) is approved, (100001, 60) and
\* (100000, 61) are rejected.
C5_ShouldAutoApproveIffWithinLimits ==
    /\ result.op = "shouldAutoApprove" =>
          (result.ret.value <=>
              (result.ret.amount <= 100000 /\ result.ret.termMonths <= 60))
    /\ shouldAutoApprove(100000, 60)
    /\ ~shouldAutoApprove(100001, 60)
    /\ ~shouldAutoApprove(100000, 61)

\* the rule was applied on the boundary itself, and approved
C5_Witness ==
    /\ result.op = "shouldAutoApprove"
    /\ result.ret.amount = 100000 /\ result.ret.termMonths = 60
    /\ result.ret.value

-----------------------------------------------------------------------------
(* C11 .. C20 *)

\* C11: the loan list and getAuditLogs() are empty while nothing has been stored
\* under their key, and getAuditLogs() is empty after clearAuditLogs(), however
\* many entries the log held.
C11_EmptyBeforeStoringAndAfterClear ==
    /\ localStorage[LOANS_STORAGE_KEY] = Null => getLoans(localStorage) = <<>>
    /\ localStorage[STORAGE_KEY] = Null => getAuditLogs(localStorage) = <<>>
    /\ getAuditLogs(clearAuditLogs(localStorage)) = <<>>
    /\ result.op = "clear" => getAuditLogs(localStorage) = <<>>

\* the log was cleared after three entries had been written, with loans stored
C11_Witness ==
    /\ result.op = "clear"
    /\ cleared = 3
    /\ Logs = <<>>
    /\ Loans # <<>>

\* a value under a key that is not the serialized form of a collection
NotSerializedCollection(item) == item # Null /\ item.kind # "json"

\* C12: when the value under a store's key is not valid serialized data for the
\* collection, the store's list (getAuditLogs, the loan list) is the empty
\* collection, and listing signals no error.
C12_CorruptedStoreListsEmpty ==
    /\ NotSerializedCollection(localStorage[STORAGE_KEY]) =>
          getAuditLogs(localStorage) = <<>>
    /\ NotSerializedCollection(localStorage[LOANS_STORAGE_KEY]) =>
          getLoans(localStorage) = <<>>
    /\ result.op \in {"getAuditLogs", "getLoans"} => ~result.threw

\* two records with the same value for every property, an absent property and
\* one whose value is undefined being alike
SameFields(a, b) == \A k \in DOMAIN a \cup DOMAIN b : Get(a, k) = Get(b, k)

\* two collections with the same records in the same order
SameCollection(xs, ys) ==
    /\ Len(xs) = Len(ys)
    /\ \A i \in 1..Len(xs) : i <= Len(ys) /\ SameFields(xs[i], ys[i])

\* inputs of createAuditLogEntry: with no optional property, with newStatus and
\* details only, and with all of them
AuditInputsTried ==
    {[action |-> "loan_created", loanId |-> 1],
     [action |-> "loan_created", loanId |-> 1, newStatus |-> "pending",
      details |-> "Loan created for A"],
     [action |-> "status_changed", loanId |-> 2, previousStatus |-> "pending",
      newStatus |-> "approved", details |-> "Status changed"]}

C14_DistinctIdsAndKnownStatuses ==
    /\ \A i, j \in 1..Len(Loans) : i # j => Loans[i].id # Loans[j].id
    /\ \A i \in 1..Len(Loans) : Loans[i].status \in {"pending", "approved", "rejected"}

\* two loans are stored, one decided and one still pending, a call on one of
\* them being the last thing that happened
C14_Witness ==
    /\ Len(Loans) = 2
    /\ result.op \in {"update", "autoDecide"}
    /\ Loans[1].status # "pending"
    /\ Loans[2].status = "pending"

\* after differs from before in nothing but the status of the loan at index i
OnlyStatusOfLoanChanged(before, after, i) ==
    /\ Len(after) = Len(before)
    /\ \A j \in 1..Len(before) : j # i => after[j] = before[j]
    /\ DOMAIN after[i] = DOMAIN before[i]
    /\ \A k \in {"id", "applicantName", "amount", "termMonths", "interestRate",
                 "createdAt"} : after[i][k] = before[i][k]

\* C15: updateLoanStatus and autoDecideLoan change nothing but the status of the
\* loan they are called for: its other fields, every other loan, and the number
\* and order of the loans stay as they were.
C15_OnlyTheStatusOfTheLoanChanges ==
    \A i \in 1..Len(Loans), t \in Timestamps, r \in RandomSuffixes :
        /\ \A newStatus \in LoanStatus :
           \A updated \in {getLoans(updateLoanStatus(localStorage, Loans[i].id,
                                                     newStatus, t, r).storage)} :
               OnlyStatusOfLoanChanged(Loans, updated, i)
        /\ \A decided \in {getLoans(autoDecideLoan(localStorage, Loans[i].id,
                                                   t, r).storage)} :
               OnlyStatusOfLoanChanged(Loans, decided, i)

\* the second of two loans was rejected by autoDecideLoan, the first is pending
C15_Witness ==
    /\ result.op = "autoDecide"
    /\ Len(Loans) = 2
    /\ Loans[1].status = "pending"
    /\ Loans[2].status = "rejected"
    /\ Logs # <<>>
    /\ Logs[Len(Logs)].loanId = Loans[2].id
    /\ Logs[Len(Logs)].action = "auto_decided"

\* C16: creation is all-or-nothing: whatever the outcome of create, one where
\* writing the audit entry fails part-way included, either the loan is
\* persisted and its loan_created entry appended, or neither collection has
\* changed.
C16_CreateIsAllOrNothing ==
    [][result'.op = "create" =>
          \/ /\ localStorage'[LOANS_STORAGE_KEY] = localStorage[LOANS_STORAGE_KEY]
             /\ localStorage'[STORAGE_KEY] = localStorage[STORAGE_KEY]
          \/ /\ localStorage'[LOANS_STORAGE_KEY] # localStorage[LOANS_STORAGE_KEY]
             /\ localStorage'[STORAGE_KEY] # localStorage[STORAGE_KEY]
             /\ ~result'.threw
      ]_vars

\* C17: from empty stores, creating a loan leaves the audit log with exactly one
\* entry (loan_created, newStatus pending); updateLoanStatus(id, approved) then
\* leaves it with exactly two, the second being status_changed with
\* previousStatus pending and newStatus approved, both for the loan's id; and
\* the loan list then holds exactly one loan, whose status is approved.
C17_CreateThenApproveScenario ==
    (Loans = <<>> /\ Logs = <<>>) =>
        \A input \in ValidInputs, t \in Timestamps, r \in RandomSuffixes :
        \A created \in {createLoanApplication(localStorage, input, nextLoanId, t, r)} :
        \A logs1 \in {getAuditLogs(created.storage)} :
        \A approved \in {updateLoanStatus(created.storage, created.ret.id,
                                          "approved", t, r)} :
        \A logs2 \in {getAuditLogs(approved.storage)},
           loans2 \in {getLoans(approved.storage)} :
            /\ ~created.threw
            /\ Len(logs1) = 1
            /\ logs1[1].action = "loan_created"
            /\ Get(logs1[1], "newStatus") = "pending"
            /\ logs1[1].loanId = created.ret.id
            /\ ~approved.threw
            /\ Len(logs2) = 2
            /\ logs2[1] = logs1[1]
            /\ logs2[2].action = "status_changed"
            /\ Get(logs2[2], "previousStatus") = "pending"
            /\ Get(logs2[2], "newStatus") = "approved"
            /\ logs2[2].loanId = created.ret.id
            /\ Len(loans2) = 1
            /\ loans2[1].id = created.ret.id
            /\ loans2[1].status = "approved"

\* the scenario has run from the empty stores: two calls, two entries, one
\* approved loan
C17_Witness ==
    /\ Len(calls) = 2 /\ cleared = 0
    /\ calls[1].op = "create" /\ calls[2].op = "update"
    /\ result.op = "update"
    /\ Len(Logs) = 2
    /\ Logs[1].action = "loan_created"
    /\ Logs[2].action = "status_changed"
    /\ Get(Logs[2], "newStatus") = "approved"
    /\ Len(Loans) = 1
    /\ Loans[1].status = "approved"

\* C18: for every amount and every positive termMonths,
\* calculateMonthlyPayment(amount, termMonths, 0) is amount / termMonths exactly,
\* and the call leaves both stores as they were.
C18_ZeroRateIsAmountOverTerm ==
    [][result'.op = "calculateMonthlyPayment" =>
          /\ localStorage' = localStorage
          /\ result'.ret.interestRate = Zero =>
                result'.ret.value[1] * result'.ret.termMonths
                    = result'.ret.amount * result'.ret.value[2]
      ]_vars

\* 1000 without interest over 3 months: a third of 1000 a month
C18_Witness ==
    /\ result.op = "calculateMonthlyPayment"
    /\ result.ret.interestRate = Zero
    /\ result.ret.amount = 1000 /\ result.ret.termMonths = 3
    /\ result.ret.value = <<1000, 3>>

\* amount * r * (1 + r)^termMonths / ((1 + r)^termMonths - 1), r = interestRate / 12
Amortized(amount, termMonths, interestRate) ==
    LET r == Over(interestRate, Num(12))
    IN  Over(Times(Times(Num(amount), r), Pow(Plus(One, r), termMonths)),
             Minus(Pow(Plus(One, r), termMonths), One))

WithinACent(x, cents) ==
    /\ AtMost(Minus(x, Frac(cents, 100)), Frac(1, 100))
    /\ AtMost(Minus(Frac(cents, 100), x), Frac(1, 100))

-----------------------------------------------------------------------------
(* The components over the stores *)

C22_StatusButtonsIffPending ==
    [][/\ \A i \in 1..Len(ui.loans) :
              /\ ui.loans[i].status = "pending"
                    => StatusButtons \subseteq ActionButtons(ui.loans[i])
              /\ ui.loans[i].status # "pending"
                    => StatusButtons \cap ActionButtons(ui.loans[i]) = {}
       /\ result'.op \in StatusButtons =>
              /\ StatusOf(localStorage, result'.ret.loanId) = "pending"
              /\ \E i \in 1..Len(ui.loans) :
                     /\ ui.loans[i].id = result'.ret.loanId
                     /\ ui.loans[i].status = "pending"
      ]_vars

\* the list shows an approved loan, whose row has the delete button only, and
\* a pending one with the three buttons, after the approve button was used
C22_Witness ==
    /\ result.op = "approve"
    /\ Len(ui.loans) = 2
    /\ ui.loans[1].status = "approved"
    /\ ActionButtons(ui.loans[1]) = {"delete"}
    /\ ui.loans[2].status = "pending"
    /\ StatusButtons \subseteq ActionButtons(ui.loans[2])

\* the rows of a status, and the amounts of the approved among the first n loans
RowsWithStatus(loans, status) == {i \in 1..Len(loans) : loans[i].status = status}

RECURSIVE ApprovedAmountUpTo(_, _)
ApprovedAmountUpTo(loans, n) ==
    IF n = 0 THEN 0
    ELSE ApprovedAmountUpTo(loans, n - 1)
         + (IF loans[n].status = "approved" THEN loans[n].amount ELSE 0)

\* C23: after any sequence of create, approve, reject, auto-decide and delete
\* actions the summary shows: as total the number of loans in the store; as
\* pending, approved and rejected the number of stored loans of that status,
\* which add up to total; and as totalApprovedAmount the sum of the amounts of
\* the approved loans, 0 when there is none.
C23_SummaryCountsTheStoredLoans ==
    \A s \in {LoanSummary(ui.loans)} :
        /\ s.total = Len(Loans)
        /\ s.pending + s.approved + s.rejected = s.total
        /\ \A status \in LoanStatus :
               s[status] = Cardinality(RowsWithStatus(Loans, status))
        /\ s.totalApprovedAmount = ApprovedAmountUpTo(Loans, Len(Loans))
        /\ RowsWithStatus(Loans, "approved") = {} => s.totalApprovedAmount = 0

\* a loan was approved and another auto-decided into rejected: the summary
\* shows 2 loans, none pending, and the amount of the approved one
C23_Witness ==
    /\ result.op = "autoDecide"
    /\ LoanSummary(ui.loans) =
           [total |-> 2, pending |-> 0, approved |-> 1, rejected |-> 1,
            totalApprovedAmount |-> AMOUNT_LIMIT]

\* the entries of a loan form a chain that starts with its creation
IsChain(entries) ==
    /\ entries # <<>> =>
           /\ entries[1].action = "loan_created"
           /\ Get(entries[1], "newStatus") = "pending"
    /\ \A k \in 2..Len(entries) :
           /\ entries[k].action \in {"status_changed", "auto_decided"}
           /\ Get(entries[k], "previousStatus") = Get(entries[k - 1], "newStatus")

\* C24: as long as the log was never cleared, the entries of each loan form a
\* chain: the first is loan_created with newStatus pending, every later one is
\* status_changed or auto_decided with previousStatus equal to the newStatus
\* of the loan's entry before it, and while the loan is in the loan store the
\* newStatus of its last entry is the status the store holds for it.
C24_AuditChainPerLoan ==
    cleared = 0 =>
        \A loanId \in LoanIds :
            \A entries \in {getAuditLogsForLoan(localStorage, loanId)} :
                /\ IsChain(entries)
                /\ StatusOf(localStorage, loanId) # "none" =>
                       /\ entries # <<>>
                       /\ Get(entries[Len(entries)], "newStatus")
                              = StatusOf(localStorage, loanId)

\* a loan was created, approved and then rejected: three entries, linked,
\* and the store holds the loan as rejected
C24_Witness ==
    /\ cleared = 0
    /\ StatusOf(localStorage, 1) = "rejected"
    /\ \E entries \in {getAuditLogsForLoan(localStorage, 1)} :
           /\ Len(entries) = 3
           /\ Get(entries[2], "newStatus") = "approved"
           /\ Get(entries[3], "previousStatus") = "approved"
           /\ Get(entries[3], "newStatus") = "rejected"

\* one loan_created entry, and at most one entry of a decision behind it
IsCreatedThenDecidedOnce(entries) ==
    /\ Len(entries) <= 2
    /\ Len(entries) >= 1 => entries[1].action = "loan_created"
    /\ Len(entries) = 2 => entries[2].action \in {"status_changed", "auto_decided"}

\* C25: when every status change comes from the buttons of the list, the
\* audit trail of each loan is one loan_created entry followed by at most one
\* status_changed or auto_decided entry, before and after every step; and a
\* loan that is approved or rejected has that same status after every step,
\* unless the step deleted it.
C25_DecidedOnceAndForGood ==
    [][\A loanId \in LoanIds :
          /\ IsCreatedThenDecidedOnce(getAuditLogsForLoan(localStorage, loanId))
          /\ IsCreatedThenDecidedOnce(getAuditLogsForLoan(localStorage', loanId))
          /\ StatusOf(localStorage, loanId) \in {"approved", "rejected"} =>
                 \/ StatusOf(localStorage', loanId) = StatusOf(localStorage, loanId)
                 \/ /\ StatusOf(localStorage', loanId) = "none"
                    /\ result'.op = "deleteButton"
      ]_vars

\* an approved loan was deleted: its trail of two entries is still in the log
C25_Witness ==
    /\ result.op = "deleteButton"
    /\ result.ret.loanId = 1
    /\ StatusOf(localStorage, 1) = "none"
    /\ \E entries \in {getAuditLogsForLoan(localStorage, 1)} :
           /\ Len(entries) = 2
           /\ entries[2].action = "status_changed"
           /\ Get(entries[2], "newStatus") = "approved"

\* C26: in App an approve event for a loan id calls updateLoanStatus(id,
\* approved), a reject event updateLoanStatus(id, rejected) and an autoDecide
\* event autoDecideLoan(id): the step leaves the storage that call leaves; and
\* after each of these events, and after each created event of the form, the
\* loans App passes to the list and the summary are the store's current list.
C26_AppCallsTheServiceAndReloads ==
    [][\A t \in Timestamps, r \in RandomSuffixes :
          /\ result'.op = "approve" =>
                 localStorage' = updateLoanStatus(localStorage, result'.ret.loanId,
                                                  "approved", t, r).storage
          /\ result'.op = "reject" =>
                 localStorage' = updateLoanStatus(localStorage, result'.ret.loanId,
                                                  "rejected", t, r).storage
          /\ result'.op = "autoDecide" =>
                 localStorage' = autoDecideLoan(localStorage, result'.ret.loanId,
                                                t, r).storage
          /\ (\/ result'.op \in StatusButtons
              \/ result'.op = "submit" /\ result'.ret.emitted # <<>>) =>
                 ui'.loans = getLoans(localStorage')
      ]_vars

\* the second of two loans was rejected from the list, and the list shows it
\* as the store holds it
C26_Witness ==
    /\ result.op = "reject"
    /\ result.ret.loanId = 2
    /\ Len(ui.loans) = 2
    /\ ui.loans = Loans
    /\ ui.loans[2].status = "rejected"

\* C27: the audit log view shows the entries of getAuditLogs() in exactly
\* the reverse of their order in the log, the most recent first, and a refresh
\* of the view leaves the persisted log as it is, in insertion order.
C27_ViewIsTheLogReversed ==
    [][result'.op = "refreshLogs" =>
          /\ localStorage' = localStorage
          /\ getAuditLogs(localStorage') = Logs
          /\ Len(result'.ret.auditLogs) = Len(Logs)
          /\ \A i \in 1..Len(Logs) :
                 result'.ret.auditLogs[i] = Logs[Len(Logs) + 1 - i]
      ]_vars

\* the view of a log of three entries: the decision on top, the first
\* creation at the bottom, and the log still starts with that creation
C27_Witness ==
    /\ result.op = "refreshLogs"
    /\ Len(result.ret.auditLogs) = 3
    /\ result.ret.auditLogs[1].action = "auto_decided"
    /\ result.ret.auditLogs[3].action = "loan_created"
    /\ Logs[1].action = "loan_created"
    /\ Logs[3].action = "auto_decided"

-----------------------------------------------------------------------------
(* The audit log store over what it finds under its key *)

\* text is stored under the key and JSON.parse throws on it
Unparseable(item) == ~Falsy(item) /\ ~JSONparse(item).ok

\* C28: when the value stored under tredgate_audit_logs cannot be parsed, the
\* next createAuditLogEntry does not throw and leaves a persisted log that
\* holds exactly the one new entry: the unreadable content is replaced.
C28_UnparseableLogIsReplaced ==
    Unparseable(localStorage[STORAGE_KEY]) =>
        \A input \in AuditInputsTried, t \in Timestamps, r \in RandomSuffixes :
            \A out \in {createAuditLogEntry(localStorage, input, t, r)} :
                /\ ~createAuditLogEntryThrows(localStorage)
                /\ out[STORAGE_KEY] # localStorage[STORAGE_KEY]
                /\ out[STORAGE_KEY].kind = "json"
                /\ Len(getAuditLogs(out)) = 1
                /\ SameFields(getAuditLogs(out)[1], NewAuditLogEntry(input, t, r))

\* text that is not JSON is under the key of the audit log, next to a stored
\* loan, and createAuditLogEntry leaves a log of one entry there
C28_Witness ==
    /\ localStorage[STORAGE_KEY] = Garbage
    /\ Len(Loans) = 1
    /\ \A input \in AuditInputsTried, t \in Timestamps, r \in RandomSuffixes :
           Len(getAuditLogs(createAuditLogEntry(localStorage, input, t, r))) = 1

\* the storage with something else under the key of the loans
WithoutLoans(ls) == [ls EXCEPT ![LOANS_STORAGE_KEY] = Null]

-----------------------------------------------------------------------------
(* The loan form *)

\* the messages of the constraints a filled-in form breaks
BrokenConstraints(form) ==
    {m \in {ERROR_NAME_REQUIRED, ERROR_AMOUNT_POSITIVE, ERROR_TERM_POSITIVE,
             ERROR_INTEREST_REQUIRED} :
        \/ m = ERROR_NAME_REQUIRED /\ Len(form.applicantName) = 0
        \/ m = ERROR_AMOUNT_POSITIVE /\ form.amount <= 0
        \/ m = ERROR_TERM_POSITIVE /\ form.termMonths <= 0
        \/ m = ERROR_INTEREST_REQUIRED /\ form.interestRate < 0}

\* no blank at either end
IsTrimmed(s) == s = <<>> \/ (s[1] \notin Whitespace /\ s[Len(s)] \notin Whitespace)

====
